---- MODULE Spec2Model ----
(***************************************************************************)
(* copiepate: the wire protocol between Client (src/src/client.rs) and the *)
(* server's Connection iterator (src/src/server/connection.rs), driven by  *)
(* Server::handle_connection (src/src/server/mod.rs).                      *)
(*                                                                         *)
(* The AEAD cipher (chacha20poly1305, an external crate) is modelled by    *)
(* its contract: a ciphertext records the key, the nonce and the plaintext *)
(* it was made from and whether its bytes were altered since; decryption   *)
(* succeeds exactly for the same key, the same nonce and unaltered bytes.  *)
(***************************************************************************)
EXTENDS Integers, Sequences, FiniteSets, TLC

(* ------------------------------ bounds -------------------------------- *)
\* connections opened towards the server in one behaviour
MaxConns == 2
\* length of the messages handed to Client::send
MaxMsgLen == 1
\* calls of Nonce::consume in a row
MaxConsumes == 2
MaxEvents == 2
\* steps of the environment against the protocol in one behaviour: those of the
\* network attacker or non-conforming peer, and failed writes of the client
MaxAttacks == 1

(* ------------------------- program constants -------------------------- *)
PROTOCOL_VERSION == 1
NOUNCE_SIZE == 12
CLOSE_PAYLOAD == <<99>>
PROTOCOL_VERSION_SIZE == 4
FRAME_SIZE_SIZE == 8
FRAME_TYPE_SIZE == 4
\* Poly1305 authentication tag appended to every ciphertext
TAG_SIZE == 16
\* U+FFFD, what String::from_utf8_lossy puts for an invalid byte
REPLACEMENT_CHARACTER == 65533

(* ------------------------------ inputs -------------------------------- *)
\* 'a', 'c' (the close marker's byte) and 0xFF (never valid in UTF-8)
MsgBytes == {97, 99, 255}

RECURSIVE SeqsUpTo(_, _)
SeqsUpTo(S, n) ==
    IF n = 0 THEN {<<>>}
    ELSE LET shorter == SeqsUpTo(S, n - 1)
         IN  shorter \cup {Append(s, b) : s \in {t \in shorter : Len(t) = n - 1}, b \in S}

Messages == SeqsUpTo(MsgBytes, MaxMsgLen)

ServerKey == "k1"
Keys == {"k1", "k2"}
NoKey == "none"

ZeroNonce == [i \in 1..NOUNCE_SIZE |-> 0]
\* values the server's random() may return: the counter's low end, a value
\* whose last byte carries, and the all-0xFF value that wraps
NonceChoices ==
    { ZeroNonce,
      [ZeroNonce EXCEPT ![NOUNCE_SIZE] = 255],
      [i \in 1..NOUNCE_SIZE |-> 255] }

(* ------------------------------ Nonce --------------------------------- *)
\* a loop that clears the byte that overflows and stops there
consume_loop_nocarry(value, i) ==
    IF i = 0 THEN value
    ELSE IF value[i] + 1 <= 255
         THEN [value EXCEPT ![i] = value[i] + 1]
         ELSE [value EXCEPT ![i] = 0]

RECURSIVE consume_loop(_, _)
consume_loop(value, i) ==
    IF i = 0 THEN value
    ELSE IF value[i] + 1 <= 255
         THEN [value EXCEPT ![i] = value[i] + 1]
         ELSE consume_loop([value EXCEPT ![i] = 0], i - 1)

\* consume that returns the nonce it was given
consume_identity(value) == value

consume(value) == consume_loop(value, Len(value))

RECURSIVE ConsumeN(_, _)
ConsumeN(value, k) == IF k = 0 THEN value ELSE ConsumeN(consume(value), k - 1)

(* -------------------------- ConnectionState --------------------------- *)
New == [tag |-> "New", nonce |-> <<>>]
Opened(nonce) == [tag |-> "Opened", nonce |-> nonce]
Closed == [tag |-> "Closed", nonce |-> <<>>]

(* ------------------------------ Cipher -------------------------------- *)
\* a payload that is no ciphertext: raw bytes
Plain(bytes) == [k |-> NoKey, n |-> <<>>, m |-> bytes, alt |-> FALSE]
encrypt(key, nonce, plaintext) == [k |-> key, n |-> nonce, m |-> plaintext, alt |-> FALSE]
\* decryption that does not verify the authentication tag
DecryptOk_ignore_alt(key, nonce, payload) == payload.k = key /\ payload.n = nonce

DecryptOk(key, nonce, payload) == payload.k = key /\ payload.n = nonce /\ ~payload.alt
PayloadLen(payload) == IF payload.k = NoKey THEN Len(payload.m) ELSE Len(payload.m) + TAG_SIZE

(* ------------------------------ NetFrame ------------------------------ *)

\* a frame size that leaves out the frame_type field
compute_frame_size_notype(payload) ==
    PROTOCOL_VERSION_SIZE + FRAME_SIZE_SIZE + PayloadLen(payload)

compute_frame_size(payload) ==
    PROTOCOL_VERSION_SIZE + FRAME_TYPE_SIZE + FRAME_SIZE_SIZE + PayloadLen(payload)

NetFrame_new(frame_type, payload) ==
    [protocol_version |-> PROTOCOL_VERSION, frame_size |-> compute_frame_size(payload),
     frame_type |-> frame_type, payload |-> payload]

close_frame(payload) == NetFrame_new("Close", payload)
open_frame == NetFrame_new("Open", Plain(<<>>))
nounce_frame(nounce) == NetFrame_new("Open", Plain(nounce))
\* NetFrame::from(Vec<u8>), used by Client::send_message: a message frame
NetFrame_from(payload) == NetFrame_new("CopyMessage", payload)

FrameTypes == {"Open", "Close", "CopyMessage", "ExecMessage"}

(* ------------------- NetFrame on the network (lib.rs) ------------------ *)
\* On the network a payload is bytes, whatever produced them: the frames of
\* this section carry their payload bytes as Plain(bytes).

\* the numeric value of a NetFrameType (num_traits ToPrimitive, FromPrimitive)
to_u32(frame_type) ==
    CASE frame_type = "Open" -> 0
      [] frame_type = "Close" -> 1
      [] frame_type = "CopyMessage" -> 2
      [] frame_type = "ExecMessage" -> 3

from_u32(n) ==
    CASE n = 0 -> "Open"
      [] n = 1 -> "Close"
      [] n = 2 -> "CopyMessage"
      [] n = 3 -> "ExecMessage"
      [] OTHER -> "None"

\* u32::to_le_bytes, u64::to_le_bytes: width bytes, least significant first
RECURSIVE to_le_bytes(_, _)
to_le_bytes(value, width) ==
    IF width = 0 THEN <<>>
    ELSE <<value % 256>> \o to_le_bytes(value \div 256, width - 1)

\* from_le_bytes keeps the full width of the integer: a value whose bytes
\* above the third are all zero is the number FromLowBytes gives, any other
\* value is at least 2^24 and is only compared, never computed with
Fits(bytes) == \A i \in 4..Len(bytes) : bytes[i] = 0
FromLowBytes(bytes) == bytes[1] + 256 * bytes[2] + 65536 * bytes[3]

\* value - HEADER_WIDTH > isize::MAX for a 64-bit value of at least 2^24
ExceedsIsizeMax(bytes) ==
    \/ bytes[8] > 128
    \/ /\ bytes[8] = 128
       /\ \/ \E i \in 2..7 : bytes[i] # 0
          \/ bytes[1] >= PROTOCOL_VERSION_SIZE + FRAME_SIZE_SIZE

to_net(frame) ==
    to_le_bytes(frame.protocol_version, PROTOCOL_VERSION_SIZE)
        \o to_le_bytes(frame.frame_size, FRAME_SIZE_SIZE)
        \o to_le_bytes(to_u32(frame.frame_type), FRAME_TYPE_SIZE)
        \o frame.payload.m

\* a version check that lets every version through
read_protocol_version_any(header) == TRUE

\* whether read_protocol_version returns Ok; Err(Unsupported) otherwise
read_protocol_version(header) ==
    LET bytes == SubSeq(header, 1, PROTOCOL_VERSION_SIZE)
    IN  Fits(bytes) /\ FromLowBytes(bytes) = PROTOCOL_VERSION

\* the eight bytes read_frame_size converts
read_frame_size(header) ==
    SubSeq(header, PROTOCOL_VERSION_SIZE + 1, PROTOCOL_VERSION_SIZE + FRAME_SIZE_SIZE)

\* "Panic": payload[0..4] of a shorter slice; "None": Err(InvalidData)
read_frame_type(payload) ==
    IF Len(payload) < FRAME_TYPE_SIZE THEN "Panic"
    ELSE LET bytes == SubSeq(payload, 1, FRAME_TYPE_SIZE)
         IN  IF Fits(bytes) THEN from_u32(FromLowBytes(bytes)) ELSE "None"

NoFrame == [frame_type |-> "None"]
NoDecoded == [res |-> "none"]

\* res: "Ok", "Err" (an io::Error of kind err), "Panic" or "Abort";
\* consumed: the bytes taken from the reader
Decoded(res, err, frame, consumed) ==
    [res |-> res, err |-> err, frame |-> frame, consumed |-> consumed]

\* alloc_ok: whether the allocator serves a payload buffer of 2^24 bytes or more
from_net(reader, alloc_ok) ==
    LET HEADER_WIDTH == PROTOCOL_VERSION_SIZE + FRAME_SIZE_SIZE
        header_buffer == SubSeq(reader, 1, HEADER_WIDTH)
        size_bytes == read_frame_size(header_buffer)
        frame_size == FromLowBytes(size_bytes)
        payload_buffer_size == frame_size - HEADER_WIDTH
        payload_buffer == SubSeq(reader, HEADER_WIDTH + 1, HEADER_WIDTH + payload_buffer_size)
        frame_type == read_frame_type(payload_buffer)
    IN  IF Len(reader) < HEADER_WIDTH
        THEN Decoded("Err", "UnexpectedEof", NoFrame, Len(reader))
        ELSE IF ~read_protocol_version(header_buffer)
        THEN Decoded("Err", "Unsupported", NoFrame, HEADER_WIDTH)
        \* frame_size < HEADER_WIDTH: the subtraction panics where overflow is
        \* checked and wraps to more than isize::MAX elsewhere, which vec! refuses
        ELSE IF Fits(size_bytes) /\ frame_size < HEADER_WIDTH
        THEN Decoded("Panic", "none", NoFrame, HEADER_WIDTH)
        ELSE IF ~Fits(size_bytes) /\ ExceedsIsizeMax(size_bytes)
        THEN Decoded("Panic", "none", NoFrame, HEADER_WIDTH)
        ELSE IF ~Fits(size_bytes) /\ ~alloc_ok
        THEN Decoded("Abort", "none", NoFrame, HEADER_WIDTH)
        ELSE IF ~Fits(size_bytes) \/ Len(reader) < HEADER_WIDTH + payload_buffer_size
        THEN Decoded("Err", "UnexpectedEof", NoFrame, Len(reader))
        ELSE IF frame_type = "Panic"
        THEN Decoded("Panic", "none", NoFrame, HEADER_WIDTH + payload_buffer_size)
        ELSE IF frame_type = "None"
        THEN Decoded("Err", "InvalidData", NoFrame, HEADER_WIDTH + payload_buffer_size)
        ELSE Decoded("Ok", "none",
                     [protocol_version |-> FromLowBytes(SubSeq(header_buffer, 1,
                                                               PROTOCOL_VERSION_SIZE)),
                      frame_size |-> frame_size,
                      frame_type |-> frame_type,
                      payload |-> Plain(SubSeq(payload_buffer, FRAME_TYPE_SIZE + 1,
                                               payload_buffer_size))],
                     HEADER_WIDTH + payload_buffer_size)

(* ------------------------ String::from_utf8_lossy --------------------- *)
\* every byte of MsgBytes is either ASCII or a byte that is invalid on its
\* own, which the conversion replaces by one U+FFFD
from_utf8_lossy(bytes) ==
    [i \in 1..Len(bytes) |-> IF bytes[i] < 128 THEN bytes[i] ELSE REPLACEMENT_CHARACTER]

\* String::as_bytes: U+FFFD is the three bytes EF BF BD
RECURSIVE as_bytes(_)
as_bytes(str) ==
    IF str = <<>> THEN <<>>
    ELSE (IF Head(str) < 128 THEN <<Head(str)>> ELSE <<239, 191, 189>>) \o as_bytes(Tail(str))

(* ----------------- server: Connection (connection.rs) ----------------- *)
\* what a frame handler returns: the FrameEvent or the ServerError, the
\* connection state it leaves, the frames it wrote and the decoded payload
Result(res, err, state, reply, payload) ==
    [res |-> res, err |-> err, state |-> state, reply |-> reply, payload |-> payload]

\* handle_close without the comparison with CLOSE_PAYLOAD
handle_close_nomarker(state, cipher, frame) ==
    IF state.tag # "Opened"
    THEN Result("Err", "InvalidState", state, <<>>, <<>>)
    ELSE IF ~DecryptOk(cipher, state.nonce, frame.payload)
    THEN Result("Err", "Decryption", state, <<>>, <<>>)
    ELSE Result("Closed", "none", state, <<>>, <<>>)

handle_close(state, cipher, frame) ==
    IF state.tag # "Opened"
    THEN Result("Err", "InvalidState", state, <<>>, <<>>)
    ELSE IF ~DecryptOk(cipher, state.nonce, frame.payload)
    THEN Result("Err", "Decryption", state, <<>>, <<>>)
    ELSE IF frame.payload.m # CLOSE_PAYLOAD
    THEN Result("Err", "InvalidState", state, <<>>, <<>>)
    ELSE Result("Closed", "none", state, <<>>, <<>>)

\* handle_open assigning the state before it writes the nonce
handle_open_state_first(state, nounce, write_ok) ==
    IF ~write_ok
    THEN Result("Err", "Io", Opened(nounce), <<>>, <<>>)
    ELSE Result("Open", "none", Opened(nounce), <<nounce_frame(nounce)>>, <<>>)

\* nounce is the value Nonce::default() drew, write_ok whether write_all of
\* the nonce frame succeeded
handle_open(state, nounce, write_ok) ==
    IF ~write_ok
    THEN Result("Err", "Io", state, <<>>, <<>>)
    ELSE Result("Open", "none", Opened(nounce), <<nounce_frame(nounce)>>, <<>>)

\* parse_message that leaves the nonce as it was
parse_message_noconsume(state, cipher, frame) ==
    IF state.tag # "Opened"
    THEN Result("Err", "InvalidState", state, <<>>, <<>>)
    ELSE IF ~DecryptOk(cipher, state.nonce, frame.payload)
    THEN Result("Err", "Decryption", state, <<>>, <<>>)
    ELSE Result("Ok", "none", state, <<>>, from_utf8_lossy(frame.payload.m))

\* parse_message without the state check: a connection that is not Opened
\* decrypts with the all-zero nonce
parse_message_nostate(state, cipher, frame) ==
    LET nounce == IF state.tag = "Opened" THEN state.nonce ELSE ZeroNonce
    IN  IF ~DecryptOk(cipher, nounce, frame.payload)
        THEN Result("Err", "Decryption", state, <<>>, <<>>)
        ELSE Result("Ok", "none", Opened(consume(nounce)), <<>>,
                    from_utf8_lossy(frame.payload.m))

\* parse_message that drops the decryption error and goes on with the payload
parse_message_unchecked(state, cipher, frame) ==
    IF state.tag # "Opened"
    THEN Result("Err", "InvalidState", state, <<>>, <<>>)
    ELSE Result("Ok", "none", Opened(consume(state.nonce)), <<>>,
                from_utf8_lossy(frame.payload.m))

parse_message(state, cipher, frame) ==
    IF state.tag # "Opened"
    THEN Result("Err", "InvalidState", state, <<>>, <<>>)
    ELSE IF ~DecryptOk(cipher, state.nonce, frame.payload)
    THEN Result("Err", "Decryption", state, <<>>, <<>>)
    ELSE Result("Ok", "none", Opened(consume(state.nonce)), <<>>,
                from_utf8_lossy(frame.payload.m))

handle_copy_message(state, cipher, frame) ==
    LET r == parse_message(state, cipher, frame)
    IN  IF r.res = "Err" THEN r ELSE [r EXCEPT !.res = "Message"]

\* an ExecMessage frame handled as a CopyMessage frame is
handle_exec_message_as_copy(state, cipher, frame) == handle_copy_message(state, cipher, frame)

handle_exec_message(state, cipher, frame) ==
    LET r == parse_message(state, cipher, frame)
    IN  IF r.res = "Err" THEN r ELSE [r EXCEPT !.res = "Exec"]

next_frame(state, cipher, frame, nounce, write_ok) ==
    CASE frame.frame_type = "Open" -> handle_open(state, nounce, write_ok)
      [] frame.frame_type = "CopyMessage" -> handle_copy_message(state, cipher, frame)
      [] frame.frame_type = "ExecMessage" -> handle_exec_message(state, cipher, frame)
      [] frame.frame_type = "Close" -> handle_close(state, cipher, frame)

PasteEvent(payload) == [type |-> "PasteEvent", payload |-> payload]
ExecEvent(payload) == [type |-> "ExecEvent", payload |-> payload]

\* every call of Iterator::next but the one that returns on it takes the
\* loop's next turn after an Open frame
PullReturns_always(res) == TRUE

\* whether Iterator::next returns after a frame that next_frame gave res for
PullReturns(res) == res # "Open"

(* ------------------------ server: sinks (mod.rs) ----------------------- *)
\* one call of a sink: the clipboard's set_contents or the spawned command
SinkCall(sink, payload, ok) == [sink |-> sink, payload |-> payload, ok |-> ok]

\* configured is whether Server.exec_command is Some, exec_ok whether the
\* command could be spawned, fed and waited for
exec_command(configured, payload, exec_ok) ==
    IF ~configured THEN <<>> ELSE <<SinkCall("exec", payload, exec_ok)>>

\* the sink calls of handle_paste_event, in order
handle_paste_event(configured, payload, clip_ok, exec_ok) ==
    IF ~clip_ok
    THEN <<SinkCall("clipboard", payload, FALSE)>>
    ELSE <<SinkCall("clipboard", payload, TRUE)>> \o exec_command(configured, payload, exec_ok)

handle_exec_event(configured, payload, exec_ok) == exec_command(configured, payload, exec_ok)

\* the match of handle_connection on an event the iterator yielded
handle_event(event, configured, clip_ok, exec_ok) ==
    IF event.type = "PasteEvent"
    THEN handle_paste_event(configured, event.payload, clip_ok, exec_ok)
    ELSE handle_exec_event(configured, event.payload, exec_ok)

(* ---------------------- client: Client (client.rs) -------------------- *)
ClientResult(ok, err, state, frames) ==
    [ok |-> ok, err |-> err, state |-> state, frames |-> frames]

\* a conversion that takes any payload of at most NOUNCE_SIZE bytes
Nonce_try_from_up_to(payload) == PayloadLen(payload) <= NOUNCE_SIZE

\* TryFrom<Vec<u8>> for Nonce: exactly NOUNCE_SIZE bytes
Nonce_try_from(payload) == PayloadLen(payload) = NOUNCE_SIZE

\* handle_open without the check that the client is New
Client_handle_open_any_state(state, frame) ==
    IF ~Nonce_try_from(frame.payload)
    THEN ClientResult(FALSE, "ParsingError", state, <<>>)
    ELSE ClientResult(TRUE, "none", Opened(frame.payload.m), <<>>)

Client_handle_open(state, frame) ==
    IF state.tag # "New"
    THEN ClientResult(FALSE, "InvalidState", state, <<>>)
    ELSE IF ~Nonce_try_from(frame.payload)
    THEN ClientResult(FALSE, "ParsingError", state, <<>>)
    ELSE ClientResult(TRUE, "none", Opened(frame.payload.m), <<>>)

\* send_close that steps the nonce once more before it encrypts
Client_send_close_twice(state, cipher, write_ok) ==
    IF state.tag # "Opened"
    THEN ClientResult(FALSE, "InvalidState", state, <<>>)
    ELSE IF ~write_ok
    THEN ClientResult(FALSE, "Io", state, <<>>)
    ELSE ClientResult(TRUE, "none", Closed,
                      <<close_frame(encrypt(cipher, consume(state.nonce), CLOSE_PAYLOAD))>>)

\* write_ok: whether stream.write_all succeeds
Client_send_close(state, cipher, write_ok) ==
    IF state.tag # "Opened"
    THEN ClientResult(FALSE, "InvalidState", state, <<>>)
    ELSE IF ~write_ok
    THEN ClientResult(FALSE, "Io", state, <<>>)
    ELSE ClientResult(TRUE, "none", Closed,
                      <<close_frame(encrypt(cipher, state.nonce, CLOSE_PAYLOAD))>>)

\* send_message that leaves the nonce as it was
Client_send_message_noconsume(state, cipher, message, write_ok) ==
    IF state.tag # "Opened"
    THEN ClientResult(FALSE, "InvalidState", state, <<>>)
    ELSE IF ~write_ok
    THEN ClientResult(FALSE, "Io", state, <<>>)
    ELSE ClientResult(TRUE, "none", state,
                      <<NetFrame_from(encrypt(cipher, state.nonce, message))>>)

\* send_message that goes on when write_all has failed
Client_send_message_ignore_write(state, cipher, message, write_ok) ==
    IF state.tag # "Opened"
    THEN ClientResult(FALSE, "InvalidState", state, <<>>)
    ELSE IF ~write_ok
    THEN ClientResult(TRUE, "none", Opened(consume(state.nonce)), <<>>)
    ELSE ClientResult(TRUE, "none", Opened(consume(state.nonce)),
                      <<NetFrame_from(encrypt(cipher, state.nonce, message))>>)

Client_send_message(state, cipher, message, write_ok) ==
    IF state.tag # "Opened"
    THEN ClientResult(FALSE, "InvalidState", state, <<>>)
    ELSE IF ~write_ok
    THEN ClientResult(FALSE, "Io", state, <<>>)
    ELSE ClientResult(TRUE, "none", Opened(consume(state.nonce)),
                      <<NetFrame_from(encrypt(cipher, state.nonce, message))>>)

(* ------------------------------- state -------------------------------- *)
VARIABLES
    nconn,      \* connections opened so far (TcpStream::connect calls)
    c2s,        \* per connection: frames written towards the server, unread
    s2c,        \* per connection: frames written towards the client, unread
    wire,       \* every encrypted frame the client has written (what the network saw)
    c_pc,       \* where the last call of Client::send is: "idle" (none yet), "handshake",
                \* "opened", "msg_sent", "done" (returned Ok), "failed" (returned Err)
    c_state,    \* Client.state
    c_key,      \* the key of Client.cipher
    c_msg,      \* the message argument of the running send
    c_err,      \* the ClientError send returned, "none" if none
    c_fresh,    \* whether the running send started with Client.state = New
    c_sent,     \* the frames the running (or last) send has written, in order
    c_read,     \* the frames the running (or last) send has read, in order
    c_step,     \* the step of send whose error the last send returned, "none" if none
    enc_log,    \* the (key, nonce) of every encryption the client performed
    s_conn,     \* the connection Server::handle_connection is (or was last) on
    s_status,   \* "listening", "serving", "closed" (iterator gave None), "error"
    s_state,    \* Connection.state
    s_err,      \* the ServerError that ended the connection, "none" if none
    events,     \* the events the connection's iterator has yielded
    s_past,     \* how each earlier connection ended: "closed" or the ServerError
    s_log,      \* per frame the connection read: the frame, the state before and after, the outcome
    clipboard,  \* the clipboard sink's content
    s_pulls,    \* the calls of Iterator::next that have returned on the connection
    s_exec,     \* whether Server.exec_command is Some
    sink_log,   \* the calls of the clipboard and command sinks, in order
    attacks,    \* steps the attacker has taken on connection s_conn
    attacked,   \* steps the attacker has taken on all connections
    faults,     \* writes and flushes that have failed
    codec_pc,   \* the byte stream's stage: "off" (frames only), "frame", "stream", "decoded"
    reader_of,  \* whose stream the bytes wait on: "server", "client", "none"
    frame_in,   \* the frame to_net is applied to
    trailing,   \* the bytes that follow the encoded frame on the stream
    reader,     \* the bytes from_net reads from
    pristine,   \* whether reader is still to_net(frame_in) followed by trailing
    decoded,    \* what from_net gave, and the receiver's state before the read
    nonces      \* a Nonce value and the values consume has returned for it, in order

vars == <<nconn, c2s, s2c, wire, c_pc, c_state, c_key, c_msg, c_err, c_fresh, c_sent,
          c_read, c_step, enc_log,
          s_conn, s_status, s_state, s_err, events, s_past, s_log, clipboard, s_pulls,
          s_exec, sink_log, attacks,
          attacked, faults, codec_pc, reader_of, frame_in, trailing, reader, pristine,
          decoded, nonces>>

client_vars == <<c_pc, c_state, c_key, c_msg, c_err, c_fresh, c_sent, c_read, c_step,
                 enc_log>>
server_vars == <<s_conn, s_status, s_state, s_err, events, s_past, s_log, clipboard,
                 s_pulls, s_exec, sink_log>>
codec_vars == <<codec_pc, reader_of, frame_in, trailing, reader, pristine, decoded>>

Conns == 1..MaxConns

Init ==
    /\ nconn = 0
    /\ c2s = [i \in Conns |-> <<>>]
    /\ s2c = [i \in Conns |-> <<>>]
    /\ wire = {}
    /\ c_pc = "idle"
    /\ c_state = New
    /\ c_key \in Keys
    /\ c_msg = <<>>
    /\ c_err = "none"
    /\ c_fresh = TRUE
    /\ c_sent = <<>>
    /\ c_read = <<>>
    /\ c_step = "none"
    /\ enc_log = <<>>
    /\ s_conn = 0
    /\ s_status = "listening"
    /\ s_state = New
    /\ s_err = "none"
    /\ events = <<>>
    /\ s_past = <<>>
    /\ s_log = <<>>
    /\ clipboard = <<>>
    /\ s_pulls = 0
    /\ s_exec = FALSE
    /\ sink_log = <<>>
    /\ attacks = 0
    /\ attacked = 0
    /\ faults = 0
    /\ codec_pc = "off"
    /\ reader_of = "none"
    /\ frame_in = NoFrame
    /\ trailing = <<>>
    /\ reader = <<>>
    /\ pristine = TRUE
    /\ decoded = NoDecoded
    /\ nonces = <<>>

(* ------------------------------ client --------------------------------- *)
ClientIdle == c_pc \in {"idle", "done", "failed"}

\* Client::new with the configured key: a used Client is replaced by a new one
ClientNew ==
    /\ ClientIdle
    /\ c_state # New
    /\ c_state' = New
    /\ UNCHANGED <<nconn, c2s, s2c, wire, c_pc, c_key, c_msg, c_err, c_fresh, c_sent, c_read,
                   c_step, enc_log, attacks, attacked, faults>>
    /\ UNCHANGED <<server_vars, codec_vars, nonces>>

\* Client::send up to the read of the Open response: connect, write the Open
\* frame. fault: "connect" when TcpStream::connect fails, "write" when
\* write_all of the Open frame fails, "none" when both succeed
ConnectFaults == {"none", "connect", "write"}

ClientConnect(message, fault) ==
    /\ ClientIdle
    /\ fault = "write" => attacked + faults < MaxAttacks
    /\ faults' = IF fault = "write" THEN faults + 1 ELSE faults
    /\ nconn' = IF fault = "connect" THEN nconn ELSE nconn + 1
    /\ c2s' = IF fault = "none" THEN [c2s EXCEPT ![nconn + 1] = Append(@, open_frame)]
              ELSE c2s
    /\ c_pc' = IF fault = "none" THEN "handshake" ELSE "failed"
    /\ c_msg' = message
    /\ c_err' = IF fault = "none" THEN "none" ELSE "Io"
    /\ c_step' = CASE fault = "none" -> "none"
                   [] fault = "connect" -> "connect"
                   [] fault = "write" -> "write_open"
    /\ c_fresh' = (c_state.tag = "New")
    /\ c_sent' = IF fault = "none" THEN <<open_frame>> ELSE <<>>
    /\ c_read' = <<>>
    /\ UNCHANGED <<s2c, wire, c_state, c_key, enc_log, attacks, attacked>>
    /\ UNCHANGED <<server_vars, codec_vars, nonces>>

\* the first send of a behaviour
ClientSend(message, fault) == nconn = 0 /\ ClientConnect(message, fault)

\* a later send, of the same Client or of a new one, on a connection of its own
ClientSendAgain(message, fault) ==
    nconn \in 1..(MaxConns - 1) /\ ClientConnect(message, fault)

\* next_frame and handle_open on the Open response
ClientHandleOpen ==
    /\ c_pc = "handshake"
    /\ s2c[nconn] # <<>>
    /\ LET r == Client_handle_open(c_state, Head(s2c[nconn]))
       IN  /\ c_state' = r.state
           /\ c_err' = r.err
           /\ c_pc' = IF r.ok THEN "opened" ELSE "failed"
           /\ c_step' = IF r.ok THEN "none" ELSE "handle_open"
    /\ c_read' = Append(c_read, Head(s2c[nconn]))
    /\ s2c' = [s2c EXCEPT ![nconn] = Tail(@)]
    /\ UNCHANGED <<nconn, c2s, wire, c_key, c_msg, c_fresh, c_sent, enc_log, attacks, attacked,
                   faults>>
    /\ UNCHANGED <<server_vars, codec_vars, nonces>>

\* next_frame when the server has dropped the stream without replying
ClientReadEof ==
    /\ c_pc = "handshake"
    /\ s2c[nconn] = <<>>
    /\ s_conn = nconn
    /\ s_status \in {"closed", "error"}
    /\ c_pc' = "failed"
    /\ c_err' = "Io"
    /\ c_step' = "next_frame"
    /\ UNCHANGED <<nconn, c2s, s2c, wire, c_state, c_key, c_msg, c_fresh, c_sent, c_read,
                   enc_log, attacks, attacked, faults>>
    /\ UNCHANGED <<server_vars, codec_vars, nonces>>

\* send_message; the encryption takes place whether or not the write succeeds
ClientSendMessage(write_ok) ==
    /\ c_pc = "opened"
    /\ ~write_ok => attacked + faults < MaxAttacks
    /\ faults' = IF write_ok THEN faults ELSE faults + 1
    /\ LET r == Client_send_message(c_state, c_key, c_msg, write_ok)
       IN  /\ c_state' = r.state
           /\ c_err' = r.err
           /\ c_pc' = IF r.ok THEN "msg_sent" ELSE "failed"
           /\ c_step' = IF r.ok THEN "none" ELSE "send_message"
           /\ c2s' = [c2s EXCEPT ![nconn] = @ \o r.frames]
           /\ c_sent' = c_sent \o r.frames
           /\ wire' = wire \cup {r.frames[i] : i \in 1..Len(r.frames)}
           /\ enc_log' = IF c_state.tag = "Opened"
                         THEN Append(enc_log, [k |-> c_key, n |-> c_state.nonce])
                         ELSE enc_log
    /\ UNCHANGED <<nconn, s2c, c_key, c_msg, c_fresh, c_read, attacks, attacked>>
    /\ UNCHANGED <<server_vars, codec_vars, nonces>>

\* send_close, flush, return Ok. flush_ok: whether stream.flush succeeds
ClientSendClose(write_ok, flush_ok) ==
    /\ c_pc = "msg_sent"
    /\ ~(write_ok /\ flush_ok) => attacked + faults < MaxAttacks
    /\ faults' = IF write_ok /\ flush_ok THEN faults ELSE faults + 1
    /\ LET r == Client_send_close(c_state, c_key, write_ok)
       IN  /\ c_state' = r.state
           /\ c_err' = IF r.ok /\ ~flush_ok THEN "Io" ELSE r.err
           /\ c_pc' = IF r.ok /\ flush_ok THEN "done" ELSE "failed"
           /\ c_step' = CASE ~r.ok -> "send_close"
                          [] r.ok /\ ~flush_ok -> "flush"
                          [] OTHER -> "none"
           /\ c2s' = [c2s EXCEPT ![nconn] = @ \o r.frames]
           /\ c_sent' = c_sent \o r.frames
           /\ wire' = wire \cup {r.frames[i] : i \in 1..Len(r.frames)}
           /\ enc_log' = IF c_state.tag = "Opened"
                         THEN Append(enc_log, [k |-> c_key, n |-> c_state.nonce])
                         ELSE enc_log
    /\ UNCHANGED <<nconn, s2c, c_key, c_msg, c_fresh, c_read, attacks, attacked>>
    /\ UNCHANGED <<server_vars, codec_vars, nonces>>

(* ------------------------------ server --------------------------------- *)

\* a server that takes a stream while it is still on the one before
ServerListening_always == TRUE

\* a server whose accept loop ends with the first connection that fails
ServerListening_until_error == s_status \notin {"serving", "error"}

\* Server::start takes the next stream; handle_connection builds Connection::new
\* the connection of handle_connection has been dropped, or there has been none
ServerListening == s_status # "serving"

\* a connection that starts in the state the connection before it was left in
Connection_new_kept == s_state

\* the state Connection::new gives a connection
Connection_new == New

ServerAccept ==
    /\ ServerListening
    /\ s_conn < nconn
    /\ s_past' = IF s_conn = 0 THEN s_past
                 ELSE Append(s_past, IF s_status = "error" THEN s_err ELSE s_status)
    /\ s_conn' = s_conn + 1
    /\ s_status' = "serving"
    /\ s_state' = Connection_new
    /\ s_err' = "none"
    /\ events' = <<>>
    /\ s_log' = <<>>
    /\ s_pulls' = 0
    /\ attacks' = 0
    \* the streams of the connections handled before are dropped
    /\ c2s' = [i \in Conns |-> IF i <= s_conn THEN <<>> ELSE c2s[i]]
    /\ s2c' = [i \in Conns |-> IF i <= s_conn THEN <<>> ELSE s2c[i]]
    /\ UNCHANGED <<nconn, wire, clipboard, s_exec, sink_log>>
    /\ UNCHANGED <<client_vars, attacked, faults, codec_vars, nonces>>

\* a loop that asks the iterator again after it has given None
ServerRunning_after_close == s_status \in {"serving", "closed"}

\* a loop that goes on after the iterator has given an error
ServerRunning_after_error == s_status \in {"serving", "error"}

\* the for loop of handle_connection is running: the iterator has given
\* neither None nor an error
ServerRunning == s_status = "serving"

\* next_frame on a frame from_net has returned, one turn of the loop of
\* Iterator::next, and the body of the for loop of handle_connection
ServerDispatch(frame, nounce, write_ok) ==
    LET r == next_frame(s_state, ServerKey, frame, nounce, write_ok)
        yielded == CASE r.res = "Message" -> <<PasteEvent(r.payload)>>
                     [] r.res = "Exec" -> <<ExecEvent(r.payload)>>
                     [] OTHER -> <<>>
    IN     /\ write_ok \/ (frame.frame_type = "Open" /\ attacked + faults < MaxAttacks)
           /\ faults' = IF write_ok THEN faults ELSE faults + 1
           /\ s_state' = r.state
           /\ s2c' = [s2c EXCEPT ![s_conn] = @ \o r.reply]
           /\ s_log' = Append(s_log, [frame |-> frame, pre |-> s_state, post |-> r.state,
                                      res |-> r.res, err |-> r.err, pull |-> s_pulls + 1])
           /\ s_pulls' = IF PullReturns(r.res) THEN s_pulls + 1 ELSE s_pulls
           /\ s_err' = r.err
           /\ s_status' = CASE r.res = "Err" -> "error"
                            [] r.res = "Closed" -> "closed"
                            [] OTHER -> "serving"
           /\ events' = events \o yielded
           \* the sinks of a connection's server do not fail
           /\ sink_log' = IF yielded = <<>> THEN sink_log
                          ELSE sink_log \o handle_event(yielded[1], s_exec, TRUE, TRUE)
           /\ clipboard' = IF r.res = "Message" THEN r.payload ELSE clipboard
           /\ UNCHANGED s_exec

ServerNext(nounce, write_ok) ==
    /\ ServerRunning
    /\ c2s[s_conn] # <<>>
    /\ ServerDispatch(Head(c2s[s_conn]), nounce, write_ok)
    /\ c2s' = [c2s EXCEPT ![s_conn] = Tail(@)]
    /\ UNCHANGED <<nconn, wire, s_conn, s_past, attacks>>
    /\ UNCHANGED <<client_vars, attacked, codec_vars, nonces>>

\* the peer has dropped its stream: from_net's read_exact fails
StreamClosedByPeer == s_conn < nconn \/ c_pc \in {"done", "failed"}

ServerReadEof ==
    /\ ServerRunning
    /\ c2s[s_conn] = <<>>
    /\ StreamClosedByPeer
    /\ s_status' = "error"
    /\ s_err' = "Io"
    /\ s_pulls' = s_pulls + 1
    /\ UNCHANGED <<nconn, c2s, s2c, wire, s_conn, s_state, events, s_past, s_log, clipboard,
                   s_exec, sink_log, attacks>>
    /\ UNCHANGED <<client_vars, attacked, faults, codec_vars, nonces>>

(* ------------------- the network and non-conforming peers -------------- *)
CanAttack == s_status = "serving" /\ attacked + faults < MaxAttacks

SetHead(q, f) == <<f>> \o Tail(q)
\* the attacker's frame is the next one the server reads
Insert(q, f) == <<f>> \o q

\* the ciphertext of the frame about to reach the server is altered
AttackerTamper ==
    /\ CanAttack
    /\ c2s[s_conn] # <<>>
    /\ LET f == Head(c2s[s_conn])
       IN  /\ f.payload.k # NoKey
           /\ ~f.payload.alt
           /\ c2s' = [c2s EXCEPT ![s_conn] = SetHead(@, [f EXCEPT !.payload.alt = TRUE])]
    /\ attacks' = attacks + 1
    /\ attacked' = attacked + 1
    /\ UNCHANGED faults
    /\ UNCHANGED <<nconn, s2c, wire>>
    /\ UNCHANGED client_vars
    /\ UNCHANGED <<server_vars, codec_vars, nonces>>

\* the frame_type field of the frame about to reach the server is changed
AttackerRetype(t) ==
    /\ CanAttack
    /\ c2s[s_conn] # <<>>
    /\ LET f == Head(c2s[s_conn])
       IN  /\ f.frame_type # t
           /\ c2s' = [c2s EXCEPT ![s_conn] = SetHead(@, [f EXCEPT !.frame_type = t])]
    /\ attacks' = attacks + 1
    /\ attacked' = attacked + 1
    /\ UNCHANGED faults
    /\ UNCHANGED <<nconn, s2c, wire>>
    /\ UNCHANGED client_vars
    /\ UNCHANGED <<server_vars, codec_vars, nonces>>

\* a frame seen earlier on the network (on this or an earlier connection) is sent again
AttackerReplay(f) ==
    /\ CanAttack
    /\ f \in wire
    /\ c2s' = [c2s EXCEPT ![s_conn] = Insert(@, f)]
    /\ attacks' = attacks + 1
    /\ attacked' = attacked + 1
    /\ UNCHANGED faults
    /\ UNCHANGED <<nconn, s2c, wire>>
    /\ UNCHANGED client_vars
    /\ UNCHANGED <<server_vars, codec_vars, nonces>>

\* payloads a peer that holds the server's key builds itself: nothing, or its
\* own encryption under the nonce the connection is at
PeerPayloads ==
    {Plain(<<>>)} \cup
    {encrypt(ServerKey, n, m) :
        n \in (IF s_state.tag = "Opened" THEN {s_state.nonce} ELSE {ZeroNonce}),
        m \in {CLOSE_PAYLOAD, <<97>>}}

\* a peer that does not follow Client::send writes a frame of its own making
PeerSend(t, payload) ==
    /\ CanAttack
    /\ c2s' = [c2s EXCEPT ![s_conn] = Insert(@, NetFrame_new(t, payload))]
    /\ attacks' = attacks + 1
    /\ attacked' = attacked + 1
    /\ UNCHANGED faults
    /\ UNCHANGED <<nconn, s2c, wire>>
    /\ UNCHANGED client_vars
    /\ UNCHANGED <<server_vars, codec_vars, nonces>>

\* the nonce of the Open response about to reach the client is replaced
AttackerSetNonce(nounce) ==
    /\ CanAttack
    /\ s2c[s_conn] # <<>>
    /\ Head(s2c[s_conn]).payload.m # nounce
    /\ s2c' = [s2c EXCEPT ![s_conn] = SetHead(@, nounce_frame(nounce))]
    /\ attacks' = attacks + 1
    /\ attacked' = attacked + 1
    /\ UNCHANGED faults
    /\ UNCHANGED <<nconn, c2s, wire>>
    /\ UNCHANGED client_vars
    /\ UNCHANGED <<server_vars, codec_vars, nonces>>

\* payloads of a reply that is not the server's: none, one byte more than a
\* nonce, and a nonce
ReplyPayloads ==
    {Plain(<<>>), Plain([i \in 1..(NOUNCE_SIZE + 1) |-> 0]), Plain(ZeroNonce)}

\* the Open response about to reach the client is replaced by an Open frame
\* with a payload of another length, or by a frame of another type with a
\* payload of a nonce's length
PeerReply(t, payload) ==
    /\ CanAttack
    /\ s2c[s_conn] # <<>>
    /\ t = "Open" <=> PayloadLen(payload) # NOUNCE_SIZE
    /\ s2c' = [s2c EXCEPT ![s_conn] = SetHead(@, NetFrame_new(t, payload))]
    /\ attacks' = attacks + 1
    /\ attacked' = attacked + 1
    /\ UNCHANGED faults
    /\ UNCHANGED <<nconn, c2s, wire>>
    /\ UNCHANGED client_vars
    /\ UNCHANGED <<server_vars, codec_vars, nonces>>

(* ------------------------- frames as bytes ----------------------------- *)
\* the frames the construction helpers build, with their payload as bytes
CodecFrames ==
    {open_frame} \cup {nounce_frame(n) : n \in NonceChoices}
        \cup {close_frame(Plain(b)) : b \in Messages}
        \cup {NetFrame_new(t, Plain(b)) : t \in {"CopyMessage", "ExecMessage"}, b \in Messages}

\* protocol_version fields a peer may write: another version, and one of 2^24 or more
VersionChoices == {to_le_bytes(PROTOCOL_VERSION + 1, PROTOCOL_VERSION_SIZE), <<1, 0, 0, 1>>}

\* frame_size fields a peer may write: sizes around the header's width, and
\* 2^24, 2^63 and 2^64 - 1
FrameSizeChoices ==
    {to_le_bytes(n, FRAME_SIZE_SIZE) : n \in {0, 11, 12, 13, 15, 16, 17}}
        \cup {<<0, 0, 0, 1, 0, 0, 0, 0>>, <<0, 0, 0, 0, 0, 0, 0, 128>>,
              [i \in 1..FRAME_SIZE_SIZE |-> 255]}

\* frame_type fields a peer may write: a known type, the first unknown one, and
\* one of 2^24 or more
FrameTypeChoices ==
    {to_le_bytes(n, FRAME_TYPE_SIZE) : n \in {1, 4}} \cup {<<0, 0, 0, 1>>}

\* the bytes of q from position at on replaced by field
Overwrite(q, at, field) ==
    [i \in 1..Len(q) |-> IF i >= at /\ i < at + Len(field) THEN field[i - at + 1] ELSE q[i]]

\* stream.write_all(&frame.to_net()) by the peer, and what it writes next
CodecEncode(rest) ==
    /\ codec_pc = "frame"
    /\ codec_pc' = "stream"
    /\ reader' = to_net(frame_in) \o rest
    /\ trailing' = rest
    /\ UNCHANGED <<nconn, c2s, s2c, wire, attacks, attacked, faults, nonces, reader_of, frame_in,
                   pristine, decoded>>
    /\ UNCHANGED <<client_vars, server_vars>>

\* a peer of its own making writes another field at an offset of the header
StreamOverwrite(at, field) ==
    /\ codec_pc = "stream"
    /\ Len(reader) >= at + Len(field) - 1
    /\ SubSeq(reader, at, at + Len(field) - 1) # field
    /\ reader' = Overwrite(reader, at, field)
    /\ pristine' = FALSE
    /\ UNCHANGED <<nconn, c2s, s2c, wire, attacks, attacked, faults, nonces, codec_pc, reader_of,
                   frame_in, trailing, decoded>>
    /\ UNCHANGED <<client_vars, server_vars>>

StreamSetVersion(field) == StreamOverwrite(1, field)
StreamSetFrameSize(field) == StreamOverwrite(PROTOCOL_VERSION_SIZE + 1, field)
StreamSetFrameType(field) ==
    StreamOverwrite(PROTOCOL_VERSION_SIZE + FRAME_SIZE_SIZE + 1, field)

\* the stream ends after n bytes: the peer drops it early
StreamCut(n) ==
    /\ codec_pc = "stream"
    /\ n < Len(reader)
    /\ reader' = SubSeq(reader, 1, n)
    /\ pristine' = FALSE
    /\ UNCHANGED <<nconn, c2s, s2c, wire, attacks, attacked, faults, nonces, codec_pc, reader_of,
                   frame_in, trailing, decoded>>
    /\ UNCHANGED <<client_vars, server_vars>>

\* Connection::next_frame on the bytes: from_net, then the dispatch on the
\* frame's type; a panic or an abort ends the server process
ServerNextBytes(nounce, alloc_ok, write_ok) ==
    /\ codec_pc = "stream"
    /\ reader_of = "server"
    /\ ServerRunning
    /\ LET d == from_net(reader, alloc_ok)
       IN  /\ decoded' = [res |-> d.res, err |-> d.err, frame |-> d.frame,
                          consumed |-> d.consumed, pre |-> s_state]
           /\ CASE d.res = "Ok" -> ServerDispatch(d.frame, nounce, write_ok)
                [] d.res = "Err" ->
                      /\ write_ok
                      /\ s_status' = "error"
                      /\ s_err' = "Io"
                      /\ s_pulls' = s_pulls + 1
                      /\ UNCHANGED <<s_state, s2c, s_log, events, clipboard, s_exec,
                                     sink_log, faults>>
                [] OTHER ->
                      /\ write_ok
                      /\ s_status' = "crashed"
                      /\ UNCHANGED <<s_state, s2c, s_log, events, clipboard, s_err,
                                     s_pulls, s_exec, sink_log, faults>>
    /\ codec_pc' = "decoded"
    /\ UNCHANGED <<nconn, c2s, wire, s_conn, s_past, attacks, attacked, nonces, reader_of,
                   frame_in, trailing, reader, pristine>>
    /\ UNCHANGED client_vars

\* Client::next_frame on the bytes, then handle_open; a panic or an abort ends
\* the client process
ClientNextBytes(alloc_ok) ==
    /\ codec_pc = "stream"
    /\ reader_of = "client"
    /\ c_pc = "handshake"
    /\ LET d == from_net(reader, alloc_ok)
           r == Client_handle_open(c_state, d.frame)
       IN  /\ decoded' = [res |-> d.res, err |-> d.err, frame |-> d.frame,
                          consumed |-> d.consumed, pre |-> c_state]
           /\ CASE d.res = "Ok" ->
                      /\ c_state' = r.state
                      /\ c_err' = r.err
                      /\ c_pc' = IF r.ok THEN "opened" ELSE "failed"
                      /\ c_step' = IF r.ok THEN "none" ELSE "handle_open"
                      /\ c_read' = Append(c_read, d.frame)
                [] d.res = "Err" ->
                      /\ c_pc' = "failed"
                      /\ c_err' = "Io"
                      /\ c_step' = "next_frame"
                      /\ UNCHANGED <<c_state, c_read>>
                [] OTHER ->
                      /\ c_pc' = "crashed"
                      /\ UNCHANGED <<c_state, c_err, c_step, c_read>>
    /\ codec_pc' = "decoded"
    /\ UNCHANGED <<nconn, c2s, s2c, wire, c_key, c_msg, c_fresh, c_sent, enc_log, attacks,
                   attacked, faults, nonces, reader_of, frame_in, trailing, reader, pristine>>
    /\ UNCHANGED server_vars

\* the connection at the read of a frame's bytes. On the server's side a peer
\* has connected and has written nothing yet, or has had its Open answered; on
\* the client's side send has written its Open frame and waits for the reply
InitCodec ==
    /\ nconn = 1
    /\ c2s = [i \in Conns |-> <<>>]
    /\ s2c = [i \in Conns |-> <<>>]
    /\ wire = {}
    /\ reader_of \in {"server", "client"}
    /\ c_pc = IF reader_of = "client" THEN "handshake" ELSE "idle"
    /\ c_state = New
    /\ c_key = ServerKey
    /\ c_msg = <<>>
    /\ c_err = "none"
    /\ c_fresh = TRUE
    /\ c_sent = IF reader_of = "client" THEN <<open_frame>> ELSE <<>>
    /\ c_read = <<>>
    /\ c_step = "none"
    /\ enc_log = <<>>
    /\ s_conn = 1
    /\ s_status = "serving"
    /\ s_state \in IF reader_of = "client" THEN {Opened(ZeroNonce)}
                   ELSE {New, Opened(ZeroNonce)}
    /\ s_err = "none"
    /\ events = <<>>
    /\ s_past = <<>>
    /\ s_log = <<>>
    /\ clipboard = <<>>
    /\ s_pulls = 0
    /\ s_exec = FALSE
    /\ sink_log = <<>>
    /\ attacks = 0
    /\ attacked = 0
    /\ faults = 0
    /\ codec_pc = "frame"
    /\ frame_in \in CodecFrames
    /\ trailing = <<>>
    /\ reader = <<>>
    /\ pristine = TRUE
    /\ decoded = NoDecoded
    /\ nonces = <<>>

(* ---------------------------- specification ---------------------------- *)
\* what can happen with one connection
NextConn ==
    \/ ClientNew
    \/ \E message \in Messages, fault \in ConnectFaults : ClientSend(message, fault)
    \/ ClientHandleOpen
    \/ ClientReadEof
    \/ \E write_ok \in BOOLEAN : ClientSendMessage(write_ok)
    \/ \E write_ok \in BOOLEAN, flush_ok \in BOOLEAN : ClientSendClose(write_ok, flush_ok)
    \/ ServerAccept
    \/ \E nounce \in NonceChoices, write_ok \in BOOLEAN : ServerNext(nounce, write_ok)
    \/ ServerReadEof
    \/ AttackerTamper
    \/ \E t \in FrameTypes : AttackerRetype(t)
    \/ \E f \in wire : AttackerReplay(f)
    \/ \E t \in FrameTypes, payload \in PeerPayloads : PeerSend(t, payload)
    \/ \E nounce \in NonceChoices : AttackerSetNonce(nounce)
    \/ \E t \in FrameTypes, payload \in ReplyPayloads : PeerReply(t, payload)

\* one connection after the other, the client's next send starting when its
\* last one has returned
Next ==
    \/ NextConn
    \/ \E message \in Messages, fault \in ConnectFaults : ClientSendAgain(message, fault)

Spec == Init /\ [][Next]_vars

\* a single connection
SpecConn == Init /\ [][NextConn]_vars

\* what can happen to the bytes of one frame
NextCodec ==
    \/ \E rest \in {<<>>, <<7>>} : CodecEncode(rest)
    \/ \E field \in VersionChoices : StreamSetVersion(field)
    \/ \E field \in FrameSizeChoices : StreamSetFrameSize(field)
    \/ \E field \in FrameTypeChoices : StreamSetFrameType(field)
    \/ \E n \in 0..(PROTOCOL_VERSION_SIZE + FRAME_SIZE_SIZE + FRAME_TYPE_SIZE + NOUNCE_SIZE) :
          StreamCut(n)
    \/ \E nounce \in NonceChoices, alloc_ok \in BOOLEAN, write_ok \in BOOLEAN :
          ServerNextBytes(nounce, alloc_ok, write_ok)
    \/ \E alloc_ok \in BOOLEAN : ClientNextBytes(alloc_ok)

\* one frame written as bytes, altered or cut short, and read
SpecCodec == InitCodec /\ [][NextCodec]_vars

(* ------------------------- Nonce::consume alone ------------------------ *)
\* nonces around every carry: the first nine bytes all 0x00, all 0xFF, or
\* 0x00 up to a last 0xFE, the last three bytes each 0x00, 0x01, 0xFE or 0xFF
NonceInputs ==
    {high \o low :
        high \in {[i \in 1..(NOUNCE_SIZE - 3) |-> 0],
                  [i \in 1..(NOUNCE_SIZE - 3) |-> 255],
                  [i \in 1..(NOUNCE_SIZE - 3) |-> IF i = NOUNCE_SIZE - 3 THEN 254 ELSE 0]},
        low \in [1..3 -> {0, 1, 254, 255}]}

\* self.consume() on the value consume returned last
NonceConsume ==
    /\ nonces # <<>>
    /\ Len(nonces) <= MaxConsumes
    /\ nonces' = Append(nonces, consume(nonces[Len(nonces)]))
    /\ UNCHANGED <<nconn, c2s, s2c, wire, attacks, attacked, faults>>
    /\ UNCHANGED <<client_vars, server_vars, codec_vars>>

InitNonce ==
    /\ nconn = 0
    /\ c2s = [i \in Conns |-> <<>>]
    /\ s2c = [i \in Conns |-> <<>>]
    /\ wire = {}
    /\ c_pc = "idle"
    /\ c_state = New
    /\ c_key = ServerKey
    /\ c_msg = <<>>
    /\ c_err = "none"
    /\ c_fresh = TRUE
    /\ c_sent = <<>>
    /\ c_read = <<>>
    /\ c_step = "none"
    /\ enc_log = <<>>
    /\ s_conn = 0
    /\ s_status = "listening"
    /\ s_state = New
    /\ s_err = "none"
    /\ events = <<>>
    /\ s_past = <<>>
    /\ s_log = <<>>
    /\ clipboard = <<>>
    /\ s_pulls = 0
    /\ s_exec = FALSE
    /\ sink_log = <<>>
    /\ attacks = 0
    /\ attacked = 0
    /\ faults = 0
    /\ codec_pc = "off"
    /\ reader_of = "none"
    /\ frame_in = NoFrame
    /\ trailing = <<>>
    /\ reader = <<>>
    /\ pristine = TRUE
    /\ decoded = NoDecoded
    /\ \E value \in NonceInputs : nonces = <<value>>

NextNonce == NonceConsume

\* a Nonce consumed again and again
SpecNonce == InitNonce /\ [][NextNonce]_vars

(* ------------------------- the sinks alone ----------------------------- *)
\* events a connection may yield
SinkEvents ==
    {PasteEvent(from_utf8_lossy(m)) : m \in {<<97>>, <<99>>}}
        \cup {ExecEvent(from_utf8_lossy(m)) : m \in {<<97>>, <<99>>}}

\* one turn of the for loop of handle_connection on an event the connection
\* yields. clip_ok: whether set_contents succeeds, exec_ok: whether the command runs
ServerHandleEvent(event, clip_ok, exec_ok) ==
    /\ s_status = "serving"
    /\ Len(events) < MaxEvents
    /\ events' = Append(events, event)
    /\ s_pulls' = s_pulls + 1
    /\ sink_log' = sink_log \o handle_event(event, s_exec, clip_ok, exec_ok)
    /\ clipboard' = IF event.type = "PasteEvent" /\ clip_ok THEN event.payload ELSE clipboard
    /\ UNCHANGED <<nconn, c2s, s2c, wire, attacks, attacked, faults, nonces>>
    /\ UNCHANGED <<s_conn, s_status, s_state, s_err, s_past, s_log, s_exec>>
    /\ UNCHANGED <<client_vars, codec_vars>>

\* a server with or without an exec command, on a connection
InitSink ==
    /\ nconn = 1
    /\ c2s = [i \in Conns |-> <<>>]
    /\ s2c = [i \in Conns |-> <<>>]
    /\ wire = {}
    /\ c_pc = "idle"
    /\ c_state = New
    /\ c_key = ServerKey
    /\ c_msg = <<>>
    /\ c_err = "none"
    /\ c_fresh = TRUE
    /\ c_sent = <<>>
    /\ c_read = <<>>
    /\ c_step = "none"
    /\ enc_log = <<>>
    /\ s_conn = 1
    /\ s_status = "serving"
    /\ s_state = New
    /\ s_err = "none"
    /\ events = <<>>
    /\ s_past = <<>>
    /\ s_log = <<>>
    /\ clipboard = <<>>
    /\ s_pulls = 0
    /\ s_exec \in BOOLEAN
    /\ sink_log = <<>>
    /\ attacks = 0
    /\ attacked = 0
    /\ faults = 0
    /\ codec_pc = "off"
    /\ reader_of = "none"
    /\ frame_in = NoFrame
    /\ trailing = <<>>
    /\ reader = <<>>
    /\ pristine = TRUE
    /\ decoded = NoDecoded
    /\ nonces = <<>>

NextSink ==
    \E event \in SinkEvents, clip_ok \in BOOLEAN, exec_ok \in BOOLEAN :
        ServerHandleEvent(event, clip_ok, exec_ok)

\* the events of a connection handed to the sinks
SpecSink == InitSink /\ [][NextSink]_vars

(* ------------------------------ properties ----------------------------- *)
\* the steps of send that fail only when the operating system reports an error
IoSteps == {"connect", "write_open", "send_message", "send_close", "flush"}

\* the server's write of the nonce has failed on the connection
NonceWriteFailed == \E i \in 1..Len(s_log) : s_log[i].err = "Io"

\* the server is on the connection of the client's running (or last) send,
\* nobody but the client and the server has touched it, and no write of the
\* client or the server has failed
HonestConn ==
    nconn > 0 /\ s_conn = nconn /\ attacks = 0 /\ c_step \notin IoSteps /\ ~NonceWriteFailed

\* a send of a newly built client that holds the server's key, untampered
HonestSend == HonestConn /\ c_key = ServerKey /\ c_fresh

IsMessageFrame(frame) == frame.frame_type \in {"CopyMessage", "ExecMessage"}

\* the entries of s_log whose frame gave an event
Accepted(n) == {i \in 1..n : s_log[i].res \in {"Message", "Exec"}}

\* valid UTF-8, for byte strings over MsgBytes
IsUtf8(bytes) == \A i \in 1..Len(bytes) : bytes[i] < 128

\* C1 (amended): a send of a new client with the server's key on an untampered
\* connection never makes the server fail; once the client has returned and
\* the server has read all it wrote, the event sequence has ended cleanly; and
\* the events of the connection are then exactly one PasteEvent whose payload
\* is the lossy UTF-8 decoding of the message, which is the message itself
\* when the message is valid UTF-8.
C1_SendDeliversLossyText ==
    HonestSend =>
        /\ s_status # "error"
        /\ (c_pc = "done" /\ c2s[nconn] = <<>>) => s_status = "closed"
        /\ s_status = "closed" =>
              /\ c_pc = "done"
              /\ events = <<PasteEvent(from_utf8_lossy(c_msg))>>
              /\ clipboard = from_utf8_lossy(c_msg)
              /\ IsUtf8(c_msg) => as_bytes(events[1].payload) = c_msg

C1_Witness ==
    /\ HonestSend
    /\ s_status = "closed"
    /\ c_msg = <<97>>
    /\ events = <<PasteEvent(<<97>>)>>

\* C1 as claimed: the one PasteEvent's payload equals the original message.
C1_PayloadEqualsMessage ==
    (HonestSend /\ s_status = "closed") =>
        /\ Len(events) = 1
        /\ events[1].type = "PasteEvent"
        /\ as_bytes(events[1].payload) = c_msg

\* the message frames written on the connection, read by the server or not
MsgFramesWritten ==
    Cardinality({i \in 1..Len(s_log) : IsMessageFrame(s_log[i].frame)})
    + Cardinality({i \in 1..Len(c2s[nconn]) : IsMessageFrame(c2s[nconn][i])})

\* the Open frames the connection has handled
OpensHandled == Cardinality({i \in 1..Len(s_log) : s_log[i].res = "Open"})

\* C2: with n0 the nonce of the connection's handshake, the server holds n0
\* consumed once per message frame it processed successfully (and not for the
\* Open frame or a failed frame); on an untampered connection the client
\* holds n0 consumed once per message frame it sent, and when as many were
\* processed as were sent the two nonces are equal.
C2_NonceLockStep ==
    /\ (s_log # <<>> /\ s_log[1].res = "Open" /\ OpensHandled = 1) =>
          s_state = Opened(ConsumeN(s_log[1].post.nonce, Len(events)))
    /\ (HonestConn /\ s_log # <<>> /\ c_pc \in {"opened", "msg_sent"}) =>
          /\ c_state = Opened(ConsumeN(s_log[1].post.nonce, MsgFramesWritten))
          /\ MsgFramesWritten = Len(events) => c_state.nonce = s_state.nonce

C2_Witness ==
    /\ HonestConn
    /\ c_pc = "msg_sent"
    /\ Len(events) = 1
    /\ c_state = s_state
    /\ s_state = Opened(consume(s_log[1].post.nonce))

\* C3 as claimed: no two encryptions of the client use the same nonce under
\* the same key.
C3_NoNonceReuse ==
    \A i, j \in 1..Len(enc_log) : i < j => enc_log[i] # enc_log[j]

\* C4: when the frame read right after an accepted message frame is that same
\* frame again, it fails with a decryption error, leaves the state alone, ends
\* the connection and adds no event.
C4_ReplayRejected ==
    \A i \in 1..Len(s_log) - 1 :
        (s_log[i].res \in {"Message", "Exec"} /\ s_log[i + 1].frame = s_log[i].frame) =>
            /\ s_log[i + 1].res = "Err"
            /\ s_log[i + 1].err = "Decryption"
            /\ s_log[i + 1].post = s_log[i + 1].pre
            /\ Len(s_log) = i + 1
            /\ s_status = "error"
            /\ Len(events) = Cardinality(Accepted(i))

C4_Witness ==
    /\ Len(s_log) = 3
    /\ s_log[2].res = "Message"
    /\ s_log[3].frame = s_log[2].frame
    /\ s_err = "Decryption"
    /\ Len(events) = 1

\* C5: a CopyMessage or ExecMessage frame read in state New gives InvalidState,
\* the state stays New, no event is emitted and the connection reads no
\* further frame.
C5_MessageBeforeOpen ==
    \A i \in 1..Len(s_log) :
        (IsMessageFrame(s_log[i].frame) /\ s_log[i].pre = New) =>
            /\ s_log[i].res = "Err"
            /\ s_log[i].err = "InvalidState"
            /\ s_log[i].post = New
            /\ s_state = New
            /\ Len(s_log) = i
            /\ s_status = "error"
            /\ s_err = "InvalidState"
            /\ events = <<>>

C5_Witness ==
    /\ Len(s_log) = 1
    /\ s_log[1].frame.frame_type = "ExecMessage"
    /\ s_log[1].frame.payload = encrypt(ServerKey, ZeroNonce, <<97>>)
    /\ s_log[1].pre = New
    /\ s_status = "error"

\* C6 as claimed: an Open frame read in state Opened gives InvalidState, no
\* nonce is sent and the state is not replaced.
C6_OpenOnlyFromNew ==
    \A i \in 1..Len(s_log) :
        (s_log[i].frame.frame_type = "Open" /\ s_log[i].pre.tag = "Opened") =>
            /\ s_log[i].res = "Err"
            /\ s_log[i].err = "InvalidState"
            /\ s_log[i].post = s_log[i].pre

\* C7: a message frame whose ciphertext was altered, read in state Opened,
\* fails with a decryption error; it leaves the state alone, adds no event and
\* is the last frame the connection reads.
C7_TamperRejected ==
    /\ Len(events) = Cardinality(Accepted(Len(s_log)))
    /\ \A i \in 1..Len(s_log) :
          (IsMessageFrame(s_log[i].frame) /\ s_log[i].frame.payload.alt
              /\ s_log[i].pre.tag = "Opened") =>
              /\ s_log[i].res = "Err"
              /\ s_log[i].err = "Decryption"
              /\ s_log[i].post = s_log[i].pre
              /\ Len(s_log) = i
              /\ s_status = "error"
              /\ s_err = "Decryption"

C7_Witness ==
    /\ Len(s_log) = 2
    /\ s_log[2].frame.frame_type = "CopyMessage"
    /\ s_log[2].frame.payload.alt
    /\ s_log[2].frame.payload.k = ServerKey
    /\ s_log[2].frame.payload.n = s_log[2].pre.nonce
    /\ s_err = "Decryption"
    /\ events = <<>>

\* C8: a frame encrypted under another key than the server's never gives an
\* event or a clean close, and read as a message or Close frame in state
\* Opened it fails with a decryption error; on an untampered connection of a new client that
\* holds another key there is no event and no clean close, the client's
\* message frame ends the connection, and it ends with a decryption error.
C8_WrongKeyRejected ==
    /\ \A i \in 1..Len(s_log) :
          s_log[i].frame.payload.k \notin {ServerKey, NoKey} =>
              /\ s_log[i].res \notin {"Message", "Exec", "Closed"}
              /\ (s_log[i].frame.frame_type # "Open" /\ s_log[i].pre.tag = "Opened") =>
                    (s_log[i].res = "Err" /\ s_log[i].err = "Decryption")
    /\ (HonestConn /\ c_fresh /\ c_key # ServerKey) =>
          /\ events = <<>>
          /\ s_status # "closed"
          /\ s_status = "error" => s_err = "Decryption"
          /\ Len(s_log) >= 2 => s_status = "error"
          /\ Len(s_log) <= 2

C8_Witness ==
    /\ HonestConn
    /\ c_fresh
    /\ c_key # ServerKey
    /\ c_pc = "done"
    /\ s_status = "error"
    /\ s_err = "Decryption"
    /\ IsMessageFrame(s_log[2].frame)

\* the states in which the protocol allows a frame type
LegalIn(frame_type, tag) ==
    IF frame_type = "Open" THEN tag = "New" ELSE tag = "Opened"

\* C9 as claimed: every frame whose type is not legal in the state the server
\* is in (in particular a Close frame in state New) gives InvalidState.
C9_IllegalFrameRejected ==
    \A i \in 1..Len(s_log) :
        ~LegalIn(s_log[i].frame.frame_type, s_log[i].pre.tag) =>
            /\ s_log[i].res = "Err"
            /\ s_log[i].err = "InvalidState"

\* C10: the event sequence ends cleanly only on a Close frame, read in state
\* Opened, that decrypts under the connection's nonce to exactly
\* CLOSE_PAYLOAD; a Close frame that decrypts to anything else gives
\* InvalidState and ends the connection with an error.
C10_CloseNeedsMarker ==
    /\ s_status = "closed" =>
          LET e == s_log[Len(s_log)]
          IN  /\ e.res = "Closed"
              /\ e.frame.frame_type = "Close"
              /\ e.pre.tag = "Opened"
              /\ e.frame.payload = encrypt(ServerKey, e.pre.nonce, CLOSE_PAYLOAD)
    /\ \A i \in 1..Len(s_log) :
          (/\ s_log[i].frame.frame_type = "Close"
           /\ s_log[i].pre.tag = "Opened"
           /\ s_log[i].frame.payload.k = ServerKey
           /\ s_log[i].frame.payload.n = s_log[i].pre.nonce
           /\ ~s_log[i].frame.payload.alt
           /\ s_log[i].frame.payload.m # CLOSE_PAYLOAD) =>
              /\ s_log[i].res = "Err"
              /\ s_log[i].err = "InvalidState"
              /\ Len(s_log) = i
              /\ s_status = "error"

C10_Witness ==
    /\ Len(s_log) = 2
    /\ s_log[2].frame.frame_type = "Close"
    /\ s_log[2].frame.payload = encrypt(ServerKey, s_log[2].pre.nonce, <<97>>)
    /\ s_err = "InvalidState"

\* the nonce of the Open response the running send has read
ReceivedNonce == c_read[1].payload.m

\* C11: a send that returns Ok has written exactly three frames, in this
\* order: an Open frame with an empty payload, one message frame whose payload
\* is the message encrypted under the nonce of the Open response it read, and
\* one Close frame whose payload is CLOSE_PAYLOAD encrypted under the
\* successor of that nonce; and as long as a send has read no Open response,
\* none of the frames it has written is encrypted.
C11_SendFrameOrder ==
    /\ c_read = <<>> => \A i \in 1..Len(c_sent) : c_sent[i].payload.k = NoKey
    /\ c_pc = "done" =>
          /\ Len(c_read) = 1
          /\ Len(c_sent) = 3
          /\ c_sent[1].frame_type = "Open"
          /\ c_sent[1].payload = Plain(<<>>)
          /\ IsMessageFrame(c_sent[2])
          /\ c_sent[2].payload = encrypt(c_key, ReceivedNonce, c_msg)
          /\ c_sent[3].frame_type = "Close"
          /\ c_sent[3].payload = encrypt(c_key, consume(ReceivedNonce), CLOSE_PAYLOAD)

C11_Witness ==
    /\ c_pc = "done"
    /\ Len(c_sent) = 3
    /\ ReceivedNonce # ZeroNonce
    /\ c_msg # <<>>

\* C12: a send that has returned an error has performed no step after the one
\* that failed: the frames it has written and read are those of the steps
\* before it, and the error is that step's; after a failed handshake (connect,
\* write of Open, read or parse of the Open response) neither a message frame
\* nor a Close frame has been written; a send that has returned Ok has
\* written an Open, a message and a Close frame.
C12_SendStopsAtFirstError ==
    /\ c_pc = "done" =>
          /\ c_err = "none"
          /\ Len(c_sent) = 3
          /\ c_sent[1].frame_type = "Open"
          /\ IsMessageFrame(c_sent[2])
          /\ c_sent[3].frame_type = "Close"
    /\ c_pc = "failed" =>
          /\ c_err # "none"
          /\ c_step \in {"connect", "write_open"} =>
                c_sent = <<>> /\ c_read = <<>> /\ c_err = "Io"
          /\ c_step = "next_frame" =>
                c_sent = <<open_frame>> /\ c_read = <<>> /\ c_err = "Io"
          /\ c_step = "handle_open" =>
                /\ c_sent = <<open_frame>>
                /\ Len(c_read) = 1
                /\ c_err \in {"InvalidState", "ParsingError"}
          /\ c_step = "send_message" =>
                c_sent = <<open_frame>> /\ Len(c_read) = 1 /\ c_err = "Io"
          /\ c_step = "send_close" =>
                /\ Len(c_sent) = 2
                /\ IsMessageFrame(c_sent[2])
                /\ c_err = "Io"
          /\ c_step = "flush" =>
                Len(c_sent) = 3 /\ c_sent[3].frame_type = "Close" /\ c_err = "Io"
          /\ c_step \in {"connect", "write_open", "next_frame", "handle_open", "send_message",
                         "send_close", "flush"}
    /\ c_pc \notin {"done", "failed"} => c_step = "none"

C12_Witness ==
    /\ c_pc = "failed"
    /\ c_step = "send_close"
    /\ Len(c_sent) = 2

\* C13: the server is on one connection at a time: it moves to the next
\* connection only when the event sequence of the one it is on has ended (with
\* None or with an error), it takes the connections in order, and as long as
\* it has not moved to a connection it has read none of the frames written on
\* it and has written nothing on it.
C13_OneConnectionAtATime ==
    /\ [](/\ \A i \in Conns : i > s_conn => s2c[i] = <<>>
          /\ (s_conn < nconn /\ c_step # "connect") => c2s[nconn] = c_sent)
    /\ [][s_conn' # s_conn =>
            /\ s_status \in {"listening", "closed", "error"}
            /\ s_conn' = s_conn + 1]_vars

C13_Witness ==
    /\ s_status = "serving"
    /\ s_conn = 1
    /\ c2s[1] # <<>>
    /\ nconn = 2
    /\ c2s[2] # <<>>

ErrorKinds == {"Io", "InvalidState", "Decryption"}

\* C14: when a connection has ended with an error (Io, InvalidState or
\* Decryption) and another one is waiting, the server can take it; and a send
\* of a new client with the server's key on an untampered connection that
\* comes after a failed one never makes the server fail, ends cleanly once the
\* server has read all the client wrote, and delivers exactly one PasteEvent
\* with the lossy decoding of its message.
C14_ErrorEndsOneConnectionOnly ==
    /\ (s_status = "error" /\ s_conn < nconn) => ENABLED ServerAccept
    /\ (HonestSend /\ \E i \in 1..Len(s_past) : s_past[i] \in ErrorKinds) =>
          /\ s_status # "error"
          /\ (c_pc = "done" /\ c2s[nconn] = <<>>) => s_status = "closed"
          /\ s_status = "closed" =>
                /\ events = <<PasteEvent(from_utf8_lossy(c_msg))>>
                /\ clipboard = from_utf8_lossy(c_msg)

C14_Witness ==
    /\ HonestSend
    /\ s_past = <<"Decryption">>
    /\ s_status = "closed"
    /\ events = <<PasteEvent(<<97>>)>>

\* C15: once the event sequence of a connection has ended with None, the
\* server reads no further frame of that connection, writes nothing on it,
\* yields no further event and changes neither the connection's state nor a
\* sink, whatever frames wait or arrive on the connection.
C15_NothingAfterClose ==
    [][(s_status = "closed" /\ s_conn' = s_conn) =>
          /\ UNCHANGED <<s_status, s_state, s_err, events, s_log, clipboard>>
          /\ Len(c2s'[s_conn]) >= Len(c2s[s_conn])
          /\ Len(s2c'[s_conn]) <= Len(s2c[s_conn])]_vars

C15_Witness ==
    /\ s_status = "closed"
    /\ c2s[s_conn] # <<>>
    /\ c_pc = "done"

\* C16: once the event sequence of a connection has given an error, the
\* server reads no further frame of that connection, writes nothing on it,
\* yields no further event, and no event reaches a sink.
C16_ErrorIsFinal ==
    [][(s_status = "error" /\ s_conn' = s_conn) =>
          /\ UNCHANGED <<s_status, s_state, s_err, events, s_log, clipboard>>
          /\ Len(c2s'[s_conn]) >= Len(c2s[s_conn])
          /\ Len(s2c'[s_conn]) <= Len(s2c[s_conn])]_vars

C16_Witness ==
    /\ s_status = "error"
    /\ s_err = "Decryption"
    /\ c2s[s_conn] # <<>>
    /\ IsMessageFrame(Head(c2s[s_conn]))

\* the bytes from_net has left on the stream
Unread == SubSeq(reader, decoded.consumed + 1, Len(reader))

\* C17: for every frame the construction helpers build (an Open frame with an
\* empty payload or with a nonce, a Close frame, a CopyMessage or ExecMessage
\* frame, with an empty payload or not), from_net applied to the bytes to_net
\* gives returns Ok with the same protocol_version, frame_size, frame_type and
\* payload, and takes exactly those bytes from the stream, whatever follows.
C17_FrameRoundTrip ==
    (codec_pc = "decoded" /\ pristine) =>
        /\ decoded.res = "Ok"
        /\ decoded.frame.protocol_version = frame_in.protocol_version
        /\ decoded.frame.frame_size = frame_in.frame_size
        /\ decoded.frame.frame_type = frame_in.frame_type
        /\ decoded.frame.payload = frame_in.payload
        /\ decoded.consumed = Len(to_net(frame_in))
        /\ Unread = trailing

C17_Witness ==
    /\ codec_pc = "decoded"
    /\ pristine
    /\ frame_in.frame_type = "ExecMessage"
    /\ frame_in.payload.m = <<255>>
    /\ trailing # <<>>
    /\ decoded.res = "Ok"

\* the frame_size field of a stream that holds it
DeclaredSize == SubSeq(reader, PROTOCOL_VERSION_SIZE + 1, PROTOCOL_VERSION_SIZE + FRAME_SIZE_SIZE)

\* the stream ends before the 16 bytes of a header, or before the frame_size
\* bytes its header declares
EndsEarly ==
    \/ Len(reader) < PROTOCOL_VERSION_SIZE + FRAME_SIZE_SIZE + FRAME_TYPE_SIZE
    \/ ~Fits(DeclaredSize)
    \/ FromLowBytes(DeclaredSize) > Len(reader)

\* C18: from_net on a stream that ends early returns an error value (an
\* io::Error); it neither panics nor aborts.
C18_ShortStreamGivesError ==
    (codec_pc = "decoded" /\ EndsEarly) => decoded.res = "Err"

\* C19: from_net on a stream whose header declares a frame_size below 16
\* returns an error value; it neither panics nor aborts.
C19_SmallFrameSizeGivesError ==
    (/\ codec_pc = "decoded"
     /\ Len(reader) >= PROTOCOL_VERSION_SIZE + FRAME_SIZE_SIZE
     /\ Fits(DeclaredSize)
     /\ FromLowBytes(DeclaredSize)
            < PROTOCOL_VERSION_SIZE + FRAME_SIZE_SIZE + FRAME_TYPE_SIZE) =>
        decoded.res = "Err"

\* the stream holds a whole version and frame_size, and the version is not
\* PROTOCOL_VERSION
OtherVersion ==
    /\ Len(reader) >= PROTOCOL_VERSION_SIZE + FRAME_SIZE_SIZE
    /\ SubSeq(reader, 1, PROTOCOL_VERSION_SIZE)
           # to_le_bytes(PROTOCOL_VERSION, PROTOCOL_VERSION_SIZE)

\* C20: a frame whose protocol_version is not PROTOCOL_VERSION makes from_net
\* return an error (kind Unsupported) with nothing read beyond the version and
\* frame_size fields; the receiver's read fails with an Io error, its
\* connection state stays as it was, the server yields no event, changes no
\* sink and writes no reply, and the client writes no further frame.
C20_OtherVersionRejected ==
    (codec_pc = "decoded" /\ OtherVersion) =>
        /\ decoded.res = "Err"
        /\ decoded.err = "Unsupported"
        /\ decoded.consumed = PROTOCOL_VERSION_SIZE + FRAME_SIZE_SIZE
        /\ reader_of = "server" =>
              /\ s_status = "error"
              /\ s_err = "Io"
              /\ s_state = decoded.pre
              /\ events = <<>>
              /\ s_log = <<>>
              /\ clipboard = <<>>
              /\ s2c[s_conn] = <<>>
        /\ reader_of = "client" =>
              /\ c_pc = "failed"
              /\ c_err = "Io"
              /\ c_state = decoded.pre
              /\ c_read = <<>>
              /\ c_sent = <<open_frame>>
              /\ c2s[nconn] = <<>>

C20_Witness ==
    /\ codec_pc = "decoded"
    /\ OtherVersion
    /\ reader_of = "server"
    /\ decoded.pre = New
    /\ frame_in = open_frame
    /\ Len(reader) = Len(to_net(open_frame))
    /\ DeclaredSize = to_le_bytes(open_frame.frame_size, FRAME_SIZE_SIZE)

\* b is a with one added, as counters of Len(a) bytes, most significant byte
\* first: some byte goes up by one, the bytes before it stay, the bytes after
\* it were all 0xFF and are all zero; the all-0xFF counter goes to all zero
IsSuccessor(a, b) ==
    /\ Len(b) = Len(a)
    /\ \/ \E i \in 1..Len(a) :
             /\ a[i] < 255
             /\ b[i] = a[i] + 1
             /\ \A j \in 1..(i - 1) : b[j] = a[j]
             /\ \A j \in (i + 1)..Len(a) : a[j] = 255 /\ b[j] = 0
       \/ /\ \A j \in 1..Len(a) : a[j] = 255
          /\ \A j \in 1..Len(a) : b[j] = 0

\* the number the last three bytes of a nonce stand for, and the bytes before them
LowValue(n) == n[NOUNCE_SIZE] + 256 * n[NOUNCE_SIZE - 1] + 65536 * n[NOUNCE_SIZE - 2]
HighBytes(n) == SubSeq(n, 1, NOUNCE_SIZE - 3)

\* m = n + k modulo 2^96, for k below 2^24
IsSum(n, k, m) ==
    LET sum == LowValue(n) + k
    IN  IF sum < 16777216
        THEN HighBytes(m) = HighBytes(n) /\ LowValue(m) = sum
        ELSE IsSuccessor(HighBytes(n), HighBytes(m)) /\ LowValue(m) = sum - 16777216

\* C21: consume returns, for every nonce, a nonce (12 bytes, each 0..255): the
\* successor of the nonce read as a 96-bit big-endian counter, so that k calls
\* in a row add k (modulo 2^96, the all-0xFF nonce going to the all-zero one).
C21_ConsumeIsSuccessor ==
    \A i \in 1..Len(nonces) :
        /\ Len(nonces[i]) = NOUNCE_SIZE
        /\ \A j \in 1..NOUNCE_SIZE : nonces[i][j] \in 0..255
        /\ i > 1 => IsSuccessor(nonces[i - 1], nonces[i])
        /\ IsSum(nonces[1], i - 1, nonces[i])
        /\ (i > 1 /\ \A j \in 1..NOUNCE_SIZE : nonces[i - 1][j] = 255) => nonces[i] = ZeroNonce

\* two calls in a row that carry out of the last three bytes
C21_Witness ==
    /\ Len(nonces) = 3
    /\ LowValue(nonces[1]) = 16777214
    /\ LowValue(nonces[3]) = 0
    /\ nonces[3][NOUNCE_SIZE - 3] = 255

\* the frames the connection read before its i-th that ended a call of
\* Iterator::next
ReturnsBefore(i) == Cardinality({j \in 1..(i - 1) : s_log[j].res # "Open"})

\* C22 (amended): each frame the connection reads drives one transition, and a
\* call of the event sequence's next reads frames until the first that is not
\* an accepted Open: the frame after an accepted Open is read by the same call,
\* the frame after any other by the next call, and the call returns with that
\* frame's event, its error or the end of the sequence, so that an event, an
\* error or the end is what every call that has returned gave.
C22_PullReadsPastOpen ==
    /\ \A i \in 1..Len(s_log) : s_log[i].pull = 1 + ReturnsBefore(i)
    /\ s_pulls >= ReturnsBefore(Len(s_log) + 1)
    /\ s_pulls <= ReturnsBefore(Len(s_log) + 1) + 1
    /\ s_pulls <= Len(events) + 1
    /\ s_pulls = Len(events) + 1 => s_status \in {"closed", "error"}
    /\ s_status = "serving" => s_pulls = Len(events)

C22_Witness ==
    /\ Len(s_log) >= 2
    /\ s_log[1].res = "Open"
    /\ s_log[2].res = "Message"
    /\ s_log[1].pull = s_log[2].pull
    /\ s_pulls = 1
    /\ Len(events) = 1

\* C22 as stated: no call of next reads two frames
C22_OneFramePerPull ==
    \A i, j \in 1..Len(s_log) : s_log[i].pull = s_log[j].pull => i = j

\* the step taken is one of Connection::next_frame that returned a ServerError
\* for the frame it read
ServerStepFailed ==
    /\ Len(s_log') = Len(s_log) + 1
    /\ s_log'[Len(s_log')].res = "Err"

\* the step taken is one of Client::send that returned a ClientError
ClientStepFailed ==
    /\ c_pc' = "failed"
    /\ c_err' # "none"
    /\ c_pc # "failed" \/ c_step' # c_step \/ c_msg' # c_msg \/ nconn' # nconn

\* the client's state when the step that failed began: a flush fails after
\* send_close has succeeded
StateBeforeFailedStep ==
    IF c_step' = "flush" THEN Client_send_close(c_state, c_key, TRUE).state ELSE c_state

\* C23: a step that returns an error leaves the connection state, nonce
\* included, as it was: on the server whenever the handling of a frame gives
\* InvalidState, Decryption or the Io error of the nonce's write, on the client
\* whenever a step of send gives ParsingError, InvalidState or an Io error.
C23_FailedStepKeepsState ==
    [][/\ ServerStepFailed =>
            /\ s_state' = s_state
            /\ s_log'[Len(s_log')].post = s_log'[Len(s_log')].pre
            /\ s_log'[Len(s_log')].err \in {"InvalidState", "Decryption", "Io"}
       /\ ClientStepFailed =>
            /\ c_state' = StateBeforeFailedStep
            /\ c_err' \in {"ParsingError", "InvalidState", "Encryption", "Io"}]_vars

\* the server has failed to decrypt a frame and the client's write of Close
\* has failed, both with an Opened state that is still in place
C23_Witness ==
    /\ s_status = "error"
    /\ s_err = "Decryption"
    /\ s_log[Len(s_log)].pre.tag = "Opened"
    /\ s_state = s_log[Len(s_log)].pre
    /\ c_pc = "failed"
    /\ c_step = "send_close"
    /\ c_err = "Io"
    /\ c_state.tag = "Opened"

\* the frames whose payload a connection accepts only when it decrypts under
\* the state's nonce
IsSealedFrame(frame) == frame.frame_type \in {"CopyMessage", "ExecMessage", "Close"}

\* C24: every connection the server takes starts New and without a nonce,
\* whatever state the connection before it was left in: a message or Close
\* frame that is the first of a connection is rejected with InvalidState, and
\* a frame is accepted only under a nonce that an Open of the same connection
\* has set, so never because of the state of an earlier connection.
C24_ConnectionStartsNew ==
    /\ s_log # <<>> => s_log[1].pre = New
    /\ (s_log # <<>> /\ IsSealedFrame(s_log[1].frame)) =>
          /\ s_log[1].res = "Err"
          /\ s_log[1].err = "InvalidState"
          /\ Len(s_log) = 1
          /\ events = <<>>
    /\ \A i \in 1..Len(s_log) :
          s_log[i].res \in {"Message", "Exec", "Closed"} =>
              \E j \in 1..(i - 1) :
                  /\ s_log[j].res = "Open"
                  /\ s_log[i].pre.tag = "Opened"
                  /\ \E k \in 0..(i - j) :
                        s_log[i].pre.nonce = ConsumeN(s_log[j].post.nonce, k)

\* the connection before ended with its Close accepted, its state left
\* Opened(consume(ZeroNonce)); the frame sealed under that nonce is the first
\* of the next connection and is rejected
C24_Witness ==
    /\ s_past = <<"closed">>
    /\ s_conn = 2
    /\ Len(s_log) = 1
    /\ s_log[1].frame = NetFrame_new("Close", encrypt(ServerKey, consume(ZeroNonce), CLOSE_PAYLOAD))
    /\ s_log[1].frame \in wire
    /\ s_log[1].res = "Err"
    /\ s_log[1].err = "InvalidState"
    /\ s_state = New

\* the send of a new client has read its reply
ReplyRead == c_fresh /\ c_read # <<>> /\ nconn = s_conn

\* C25: the client leaves New for Opened(nonce) only on a reply whose payload
\* is exactly NOUNCE_SIZE bytes, and the nonce it adopts is those bytes; on a
\* reply with a payload of any other length, the empty one included, send
\* fails with ParsingError, the state stays New, and the Open frame is all the
\* send has written.
C25_NonceOfTwelveBytes ==
    ReplyRead =>
        /\ PayloadLen(c_read[1].payload) = NOUNCE_SIZE =>
              /\ c_step # "handle_open"
              /\ c_pc = "opened" => c_state = Opened(c_read[1].payload.m)
        /\ PayloadLen(c_read[1].payload) # NOUNCE_SIZE =>
              /\ c_pc = "failed"
              /\ c_step = "handle_open"
              /\ c_err = "ParsingError"
              /\ c_state = New
              /\ c_sent = <<open_frame>>
              /\ enc_log = <<>>

C25_Witness ==
    /\ ReplyRead
    /\ c_read[1].frame_type = "Open"
    /\ c_read[1].payload = Plain(<<>>)
    /\ c_err = "ParsingError"
    /\ c_state = New
    /\ c_sent = <<open_frame>>

\* C26 as stated: a send goes past the handshake only on a reply of frame type
\* Open; a reply of type Close, CopyMessage or ExecMessage makes the send fail
\* with the state still New, and its payload is never the client's nonce.
C26_ReplyTypeChecked ==
    (ReplyRead /\ c_read[1].frame_type # "Open") =>
        /\ c_pc = "failed"
        /\ c_state = New
        /\ enc_log = <<>>

\* the i-th frame the connection read is a message frame that decrypts under
\* the key and the nonce the connection was at
Decrypted(i) ==
    /\ IsMessageFrame(s_log[i].frame)
    /\ s_log[i].pre.tag = "Opened"
    /\ DecryptOk(ServerKey, s_log[i].pre.nonce, s_log[i].frame.payload)

\* the event of that frame's type, with text as its payload
EventOf(i, text) ==
    IF s_log[i].frame.frame_type = "CopyMessage" THEN PasteEvent(text) ELSE ExecEvent(text)

\* the events for the first n frames read, in the order of the frames
RECURSIVE EventsFor(_)
EventsFor(n) ==
    IF n = 0 THEN <<>>
    ELSE EventsFor(n - 1) \o
         (IF Decrypted(n) THEN <<EventOf(n, from_utf8_lossy(s_log[n].frame.payload.m))>>
          ELSE <<>>)

\* the frame that gave the k-th event
FrameOfEvent(k) ==
    CHOOSE i \in 1..Len(s_log) :
        Decrypted(i) /\ Cardinality({j \in 1..i : Decrypted(j)}) = k

\* C27 (amended): the connection yields exactly one event per message frame
\* that decrypts and none for any other frame: a PasteEvent for a CopyMessage
\* frame, an ExecEvent for an ExecMessage frame, in the order the frames were
\* read, each with the lossy UTF-8 decoding of the decrypted plaintext as its
\* payload, which is the plaintext itself when that is valid UTF-8.
C27_OneEventPerDecryptedMessage ==
    /\ events = EventsFor(Len(s_log))
    /\ \A i \in 1..Len(s_log) : Decrypted(i) <=> s_log[i].res \in {"Message", "Exec"}
    /\ \A k \in 1..Len(events) :
          IsUtf8(s_log[FrameOfEvent(k)].frame.payload.m) =>
              as_bytes(events[k].payload) = s_log[FrameOfEvent(k)].frame.payload.m

\* a CopyMessage frame and then an ExecMessage frame have been accepted
C27_Witness ==
    /\ Len(events) = 2
    /\ events[1].type = "PasteEvent"
    /\ events[2].type = "ExecEvent"
    /\ Len(s_log) >= 3
    /\ s_log[1].res = "Open"

\* C27 as stated: the payload of every event is the decrypted plaintext
C27_PayloadIsPlaintext ==
    \A k \in 1..Len(events) :
        as_bytes(events[k].payload) = s_log[FrameOfEvent(k)].frame.payload.m

\* the calls of a sink so far
CallsOf(sink) == Cardinality({i \in 1..Len(sink_log) : sink_log[i].sink = sink})

PasteEvents == Cardinality({k \in 1..Len(events) : events[k].type = "PasteEvent"})

\* C28 as stated: with an exec command configured, the command has been run
\* once for every event, ExecEvent or PasteEvent, and the clipboard has been
\* written once for every PasteEvent, a failed write included.
C28_SinkCallsPerEvent ==
    s_exec =>
        /\ CallsOf("exec") = Len(events)
        /\ CallsOf("clipboard") = PasteEvents

\* every encrypted payload the server has read is one the client wrote: the
\* network has changed nothing but frame types and the order of frames
OnlyClientPayloads ==
    \A i \in 1..Len(s_log) :
        IsSealedFrame(s_log[i].frame) =>
            \E j \in 1..Len(c_sent) : c_sent[j].payload = s_log[i].frame.payload

\* the type of the event a message frame of type t stands for
EventTypeOf(t) == IF t = "CopyMessage" THEN "PasteEvent" ELSE "ExecEvent"

\* C29 as stated: when nothing but the frame_type of the client's frames has
\* been changed on the way, every event the server yields has the type and
\* the payload of a message frame the client sent.
C29_FrameTypeProtected ==
    (nconn = s_conn /\ OnlyClientPayloads) =>
        \A k \in 1..Len(events) :
            \E j \in 1..Len(c_sent) :
                /\ IsMessageFrame(c_sent[j])
                /\ EventTypeOf(c_sent[j].frame_type) = events[k].type
                /\ from_utf8_lossy(c_sent[j].payload.m) = events[k].payload

\* the running (or last) send is one of a Client that had left New before
UsedClient == ~c_fresh /\ nconn > 0

\* C30: a Client completes at most one send. A send of a Client that an
\* earlier send has left Opened or Closed writes at most its Open frame and
\* never returns Ok; once it has read a reply it has failed in handle_open
\* with InvalidState; and no step of it changes the client's state.
C30_ClientSendsOnce ==
    /\ [](UsedClient =>
            /\ c_pc \in {"handshake", "failed"}
            /\ c_sent \in {<<>>, <<open_frame>>}
            /\ c_read # <<>> =>
                  /\ c_pc = "failed"
                  /\ c_step = "handle_open"
                  /\ c_err = "InvalidState")
    /\ [][/\ (UsedClient /\ c_pc = "handshake") => c_state' = c_state
          /\ nconn' # nconn => c_state' = c_state]_vars

\* a second send of a Client whose first send returned Ok
C30_Witness ==
    /\ UsedClient
    /\ nconn = 2
    /\ c_state = Closed
    /\ c_read # <<>>
    /\ c_read[1].frame_type = "Open"
    /\ c_sent = <<open_frame>>
    /\ c_pc = "failed"
    /\ c_err = "InvalidState"

====
